---- MODULE Spec2Model ----
(***************************************************************************)
(* The interactive experiment wizard of chaostoolkit/cli.py: the `init`    *)
(* command and the recursive `add_activities` selection loop.              *)
(*                                                                         *)
(* One step of the model is the handling of one operator input (the code   *)
(* from one click prompt to the next one), the return of one invocation of *)
(* add_activities, or the resumption of an invocation at line 256.         *)
(***************************************************************************)
EXTENDS Integers, Sequences, FiniteSets, TLC

VARIABLES
    pc,               \* position of the program: the pending prompt or step
    discovery,        \* cli.py:155-158  None or the loaded discovery document
    base_experiment,  \* cli.py:162      the experiment document being built
    hypo,             \* cli.py:178      the hypothesis dict, None before
    section,          \* which list the `pool` parameter refers to
    stack,            \* call stack of add_activities invocations, top last
    activity,         \* cli.py:256      the dict the running invocation builds
    arg_i,            \* cli.py:267      position of the arguments loop
    last,             \* history: the most recent operator input
    accepts,          \* history: yes answers to 'Do you want to use this ...?'
    confirmed,        \* history: the names confirmed in the section, in order
    picks,            \* number of non-zero menu entries so far
    written           \* cli.py:198-199  the experiment file, None before

vars == <<pc, discovery, base_experiment, hypo, section, stack, activity,
          arg_i, last, accepts, confirmed, picks, written>>

----------------------------------------------------------------------------
(* Bounds *)

\* longest activity list of a discovery document
MaxActs == 2
\* non-zero menu entries the operator makes in one session
MaxPicks == 2

----------------------------------------------------------------------------
(* Values: Python scalars, tagged so that None, "" and numbers differ *)

None == [t |-> "null", v |-> ""]
Str(s) == [t |-> "str", v |-> s]
Num(s) == [t |-> "int", v |-> s]

\* texts that click's INT type accepts
Numerals == {"7", "30"}

\* what the operator may type at an argument prompt ("" is a bare return)
Texts == {"", "7"}

\* what the operator may type at the tolerance prompt
ToleranceTexts == {"", "7"}

Titles == {"my experiment"}

----------------------------------------------------------------------------
(* Discovery documents *)

ProbeOne ==
    [name |-> "probe-one", type |-> "probe", mod |-> "ext.probes"]

ProbeTwo ==
    [name |-> "probe-two", type |-> "probe", mod |-> "ext.probes",
     arguments |-> << [name |-> "configuration", default |-> Str("c")],
                      [name |-> "url"] >>]

ActOne ==
    [name |-> "act-one", type |-> "action", mod |-> "ext.actions",
     arguments |-> << [name |-> "secrets", default |-> None],
                      [name |-> "timeout", default |-> Num("30")],
                      [name |-> "target", default |-> None] >>]

\* an action without arguments, of which the long discoveries are made
ActZero ==
    [name |-> "act-zero", type |-> "action", mod |-> "ext.actions",
     arguments |-> <<>>]

\* `if len(activities) > 10`
PagerThreshold == 10

\* the order in which the discovery lists the activities it found
CatalogOrder == <<ProbeOne, ActOne, ProbeTwo>>

\* the activity lists: up to MaxActs activities of the catalog, in order
ActivityLists ==
    { [i \in 1..Len(p) |-> CatalogOrder[p[i]]] :
        p \in { q \in UNION { [1..n -> 1..Len(CatalogOrder)] :
                                 n \in 0..MaxActs } :
                  \A i, j \in 1..Len(q) : i < j => q[i] < q[j] } }

\* two long activity lists, at and just above the pager's threshold
LongLists ==
    { [i \in 1..n |-> ActZero] : n \in {PagerThreshold, PagerThreshold + 1} }

Discoveries ==
    {None} \cup { [activities |-> l] : l \in ActivityLists \cup LongLists }

\* `if discovery:` -- None is falsy, a loaded document is a non-empty dict
Truthy(d) == d # None

----------------------------------------------------------------------------
(* init: the candidates of the two sections *)

ProbeActivities_Unfiltered(acts) ==
    [i \in 1..Len(acts) |-> <<acts[i].name, acts[i]>>]

RECURSIVE ProbeActivities(_)
ProbeActivities(acts) ==
    IF acts = <<>> THEN <<>>
    ELSE LET a == Head(acts)
         IN  IF a.type = "probe"
             THEN << <<a.name, a>> >> \o ProbeActivities(Tail(acts))
             ELSE ProbeActivities(Tail(acts))

MethodActivities(acts) ==
    [i \in 1..Len(acts) |-> <<acts[i].name, acts[i]>>]

----------------------------------------------------------------------------
(* add_activities: helpers *)

base_activity ==
    [type |-> None, name |-> None,
     provider |-> [type |-> Str("python"), module |-> None, func |-> None,
                   arguments |-> <<>>]]

\* default of the with_tolerance parameter
DefaultWithTolerance == FALSE

IsEscape_Negative(activity_index) == activity_index < 0

\* `if not activity_index`
IsEscape(activity_index) == activity_index = 0

\* Python list subscript l[i]: is it defined (no IndexError)
HasIndex(l, i) == (i >= 0 /\ i < Len(l)) \/ (i < 0 /\ -i <= Len(l))

\* Python list subscript l[i], negative i counts from the end
Subscript(l, i) == IF i >= 0 THEN l[i + 1] ELSE l[Len(l) + i + 1]

IndexError == [type |-> "IndexError"]

Select_OffByOne(activities, activity_index) ==
    IF HasIndex(activities, activity_index)
    THEN Subscript(activities, activity_index)[2]
    ELSE IndexError

Select_Lenient(activities, activity_index) ==
    IF HasIndex(activities, activity_index - 1)
    THEN Subscript(activities, activity_index - 1)[2]
    ELSE [name |-> "", type |-> "", mod |-> ""]

\* selected = activities[activity_index - 1][1], or the IndexError raised
Select(activities, activity_index) ==
    IF HasIndex(activities, activity_index - 1)
    THEN Subscript(activities, activity_index - 1)[2]
    ELSE IndexError

\* selected.get("arguments", [])
Arguments(selected) ==
    IF "arguments" \in DOMAIN selected THEN selected.arguments ELSE <<>>

IsReserved_SecretsOnly(arg_name) == arg_name = "secrets"

IsReserved(arg_name) == arg_name \in {"secrets", "configuration"}

\* the default handed to click.prompt for an argument
DisplayDefault(arg) ==
    IF "default" \in DOMAIN arg
    THEN IF arg.default = None THEN Str("") ELSE arg.default
    ELSE None

Reprompt == [t |-> "reprompt", v |-> ""]

\* click.prompt(text, default=default): the value returned for what the
\* operator typed, or Reprompt when click asks again
ClickPrompt(default, text) ==
    IF text = ""
    THEN IF default = None THEN Reprompt ELSE default
    ELSE IF default.t = "int"
         THEN IF text \in Numerals THEN Num(text) ELSE Reprompt
         ELSE Str(text)

StoredValue_NoOverride(arg, arg_value) == arg_value

\* the override back to None after the prompt
StoredValue(arg, arg_value) ==
    IF "default" \in DOMAIN arg /\ arg.default = None /\ arg_value = Str("")
    THEN None
    ELSE arg_value

\* activity = base_activity.copy(); name and type from the selection
NewActivity(selected) ==
    [base_activity EXCEPT !.name = Str(selected.name),
                          !.type = Str(selected.type)]

\* activity["tolerance"] = tolerance_value
WithToleranceValue(act, tolerance_value) ==
    ("tolerance" :> tolerance_value) @@ act

\* activity["provider"] = {...} with module, func and empty arguments
WithProvider(act, selected) ==
    [act EXCEPT !.provider = [type |-> Str("python"),
                              module |-> Str(selected.mod),
                              func |-> Str(selected.name),
                              arguments |-> <<>>]]

\* activity["provider"]["arguments"][name] = arg_value
WithArgument(act, name, arg_value) ==
    [act EXCEPT !.provider.arguments = (name :> arg_value) @@ @]

NextArg_StopsAtReserved(args, i) ==
    IF i > Len(args) THEN i
    ELSE IF IsReserved(args[i].name) THEN Len(args) + 1
    ELSE i

\* first position at or after i of an argument that is prompted for,
\* Len(args) + 1 when the for loop is over
RECURSIVE NextArg(_, _)
NextArg(args, i) ==
    IF i > Len(args) THEN i
    ELSE IF IsReserved(args[i].name) THEN NextArg(args, i + 1)
    ELSE i

----------------------------------------------------------------------------
(* State access *)

NoInput == [prompt |-> "none"]

Top == stack[Len(stack)]

Pool ==
    IF section = "hypothesis" THEN hypo.probes
    ELSE IF section = "method" THEN base_experiment.method
    ELSE <<>>

Echo_AtThreshold(activities) ==
    IF Len(activities) >= PagerThreshold THEN "echo_via_pager" ELSE "echo"

\* the function that shows the menu
Echo(activities) ==
    IF Len(activities) > PagerThreshold THEN "echo_via_pager" ELSE "echo"

Frame(activities, with_tolerance, pool) ==
    [activities |-> activities, with_tolerance |-> with_tolerance,
     echo |-> Echo(activities),
     activity_index |-> 0, selected |-> None, at |-> "run",
     entry |-> pool, asked |-> {}]

\* the running invocation has shown the prompt `p`
Asked(p) == [stack EXCEPT ![Len(stack)].asked = @ \cup {p}]

PoolAppend_Shared(act) ==
    IF section = "hypothesis"
    THEN /\ hypo' = [hypo EXCEPT !.probes = Append(@, act)]
         /\ UNCHANGED base_experiment
    ELSE /\ base_experiment' =
             [base_experiment EXCEPT !.method = Append(@, act)]
         /\ hypo' = IF hypo # None /\ "probes" \in DOMAIN hypo
                    THEN [hypo EXCEPT !.probes = Append(@, act)]
                    ELSE hypo

\* pool.append(act)
PoolAppend(act) ==
    IF section = "hypothesis"
    THEN /\ hypo' = [hypo EXCEPT !.probes = Append(@, act)]
         /\ UNCHANGED base_experiment
    ELSE /\ base_experiment' =
             [base_experiment EXCEPT !.method = Append(@, act)]
         /\ UNCHANGED hypo

\* the for loop over the arguments, from position i on, up to the next
\* prompt or to pool.append and the 'select another' prompt
ArgsLoop(act, i) ==
    LET args == Arguments(Top.selected)
        j == NextArg(args, i)
    IN  /\ activity' = act
        /\ arg_i' = j
        /\ IF j <= Len(args)
           THEN /\ pc' = "args"
                /\ UNCHANGED <<hypo, base_experiment>>
           ELSE /\ pc' = "another"
                /\ PoolAppend(act)

Line193_WritesEarly(exp) ==
    IF Truthy(discovery)
    THEN /\ base_experiment' = ("method" :> <<>>) @@ exp
         /\ section' = "method"
         /\ stack' = << Frame(MethodActivities(discovery.activities),
                              DefaultWithTolerance, <<>>) >>
         /\ pc' = "menu"
         /\ accepts' = 0
         /\ confirmed' = <<>>
         /\ written' = base_experiment'
    ELSE /\ base_experiment' = exp
         /\ written' = exp
         /\ pc' = "done"
         /\ UNCHANGED <<section, stack, accepts, confirmed>>

\* init from line 193 on, with the experiment document exp
Line193(exp) ==
    IF Truthy(discovery)
    THEN /\ base_experiment' = ("method" :> <<>>) @@ exp
         /\ section' = "method"
         /\ stack' = << Frame(MethodActivities(discovery.activities),
                              DefaultWithTolerance, <<>>) >>
         /\ pc' = "menu"
         /\ accepts' = 0
         /\ confirmed' = <<>>
         /\ UNCHANGED written
    ELSE /\ base_experiment' = exp
         /\ written' = exp
         /\ pc' = "done"
         /\ UNCHANGED <<section, stack, accepts, confirmed>>

----------------------------------------------------------------------------
(* Initial state *)

Init ==
    /\ pc = "title"
    /\ discovery \in Discoveries
    /\ base_experiment = [version |-> "1.0.0", title |-> "",
                          description |-> "N/A", tags |-> <<>>,
                          rollbacks |-> <<>>]
    /\ hypo = None
    /\ section = "none"
    /\ stack = <<>>
    /\ activity = None
    /\ arg_i = 0
    /\ last = NoInput
    /\ accepts = 0
    /\ confirmed = <<>>
    /\ picks = 0
    /\ written = None

----------------------------------------------------------------------------
(* init: the prompts before the selection loops *)

EnterTitle(title) ==
    /\ pc = "title"
    /\ last' = [prompt |-> "title", text |-> title]
    /\ base_experiment' = [base_experiment EXCEPT !.title = title]
    /\ pc' = "ask_hypo"
    /\ UNCHANGED <<discovery, hypo, section, stack, activity, arg_i,
                   accepts, confirmed, picks, written>>

ConfirmHypothesis(yes) ==
    /\ pc = "ask_hypo"
    /\ last' = [prompt |-> "hypothesis", yes |-> yes]
    /\ IF yes
       THEN /\ hypo' = <<>>
            /\ pc' = "hypo_title"
            /\ UNCHANGED <<base_experiment, section, stack, accepts,
                           confirmed, written>>
       ELSE /\ Line193(base_experiment)
            /\ UNCHANGED hypo
    /\ UNCHANGED <<discovery, activity, arg_i, picks>>

EnterHypoTitle(title) ==
    /\ pc = "hypo_title"
    /\ last' = [prompt |-> "title", text |-> title]
    /\ LET titled == ("title" :> title) @@ hypo
       IN  IF Truthy(discovery)
           THEN /\ hypo' = ("probes" :> <<>>) @@ titled
                /\ section' = "hypothesis"
                /\ stack' = << Frame(ProbeActivities(discovery.activities),
                                     TRUE, <<>>) >>
                /\ pc' = "menu"
                /\ accepts' = 0
                /\ confirmed' = <<>>
                /\ UNCHANGED <<base_experiment, written>>
           ELSE /\ hypo' = titled
                /\ Line193(("steady-state-hypothesis" :> titled)
                              @@ base_experiment)
    /\ UNCHANGED <<discovery, activity, arg_i, picks>>

----------------------------------------------------------------------------
(* add_activities *)

MenuInputs == (0 - MaxActs - 1) .. (MaxActs + 1)

MenuChoice(activity_index) ==
    /\ pc = "menu"
    /\ IsEscape(activity_index) \/ picks < MaxPicks
    /\ last' = [prompt |-> "menu", idx |-> activity_index]
    /\ IF IsEscape(activity_index)
       THEN /\ pc' = "return"
            /\ stack' = [Asked("menu") EXCEPT
                            ![Len(stack)].activity_index = activity_index]
            /\ UNCHANGED picks
       ELSE /\ picks' = picks + 1
            /\ IF Select(Top.activities, activity_index) # IndexError
               THEN /\ pc' = "confirm"
                    /\ stack' = [Asked("menu") EXCEPT
                          ![Len(stack)].activity_index = activity_index,
                          ![Len(stack)].selected =
                              Select(Top.activities, activity_index)]
               ELSE /\ pc' = "crashed"
                    /\ stack' = [Asked("menu") EXCEPT
                          ![Len(stack)].activity_index = activity_index]
    /\ UNCHANGED <<discovery, base_experiment, hypo, section, activity,
                   arg_i, accepts, confirmed, written>>

ConfirmUse(yes) ==
    /\ pc = "confirm"
    /\ last' = [prompt |-> "use", yes |-> yes]
    /\ stack' = Asked("use")
    /\ IF yes
       THEN /\ pc' = "build"
            /\ accepts' = accepts + 1
            /\ confirmed' = Append(confirmed, Str(Top.selected.name))
       ELSE /\ pc' = "declined"
            /\ UNCHANGED <<accepts, confirmed>>
    /\ UNCHANGED <<discovery, base_experiment, hypo, section, activity,
                   arg_i, picks, written>>

Recurse_DropsFirst(at) ==
    Append([Asked("another") EXCEPT ![Len(stack)].at = at],
           Frame(Tail(Top.activities), DefaultWithTolerance, Pool))

\* the two recursive calls: add_activities(activities, pool)
Recurse(at) ==
    Append([Asked("another") EXCEPT ![Len(stack)].at = at],
           Frame(Top.activities, DefaultWithTolerance, Pool))

ConfirmAnotherAfterDecline_FallThrough(yes) ==
    /\ pc = "declined"
    /\ last' = [prompt |-> "another", yes |-> yes]
    /\ IF yes
       THEN /\ pc' = "menu"
            /\ stack' = Recurse("254")
       ELSE /\ pc' = "build"
            /\ stack' = Asked("another")
    /\ UNCHANGED <<discovery, base_experiment, hypo, section, activity,
                   arg_i, accepts, confirmed, picks, written>>

\* 'Do you want to select another activity?' after a decline
ConfirmAnotherAfterDecline(yes) ==
    /\ pc = "declined"
    /\ last' = [prompt |-> "another", yes |-> yes]
    /\ IF yes
       THEN /\ pc' = "menu"
            /\ stack' = Recurse("254")
       ELSE /\ pc' = "return"
            /\ stack' = Asked("another")
    /\ UNCHANGED <<discovery, base_experiment, hypo, section, activity,
                   arg_i, accepts, confirmed, picks, written>>

\* lines 256-266, entered after a yes to 'use this' and when the call of
\* line 254 has returned
Build ==
    /\ pc = "build"
    /\ LET act == NewActivity(Top.selected)
       IN  IF Top.with_tolerance
           THEN /\ pc' = "tolerance"
                /\ activity' = act
                /\ UNCHANGED <<arg_i, hypo, base_experiment>>
           ELSE ArgsLoop(WithProvider(act, Top.selected), 1)
    /\ UNCHANGED <<discovery, section, stack, last, accepts, confirmed,
                   picks, written>>

EnterTolerance(text) ==
    /\ pc = "tolerance"
    /\ last' = [prompt |-> "tolerance", text |-> text]
    /\ stack' = Asked("tolerance")
    /\ LET tolerance_value == ClickPrompt(None, text)
       IN  IF tolerance_value = Reprompt
           THEN UNCHANGED <<pc, activity, arg_i, hypo, base_experiment>>
           ELSE ArgsLoop(WithProvider(
                            WithToleranceValue(activity, tolerance_value),
                            Top.selected), 1)
    /\ UNCHANGED <<discovery, section, accepts, confirmed, picks, written>>

EnterArgument(text) ==
    /\ pc = "args"
    /\ last' = [prompt |-> "argument", text |-> text]
    /\ stack' = Asked("argument")
    /\ LET arg == Arguments(Top.selected)[arg_i]
           arg_value == ClickPrompt(DisplayDefault(arg), text)
       IN  IF arg_value = Reprompt
           THEN UNCHANGED <<pc, activity, arg_i, hypo, base_experiment>>
           ELSE ArgsLoop(WithArgument(activity, arg.name,
                                      StoredValue(arg, arg_value)),
                         arg_i + 1)
    /\ UNCHANGED <<discovery, section, accepts, confirmed, picks, written>>

\* 'Do you want to select another activity?' after pool.append
ConfirmAnother(yes) ==
    /\ pc = "another"
    /\ last' = [prompt |-> "another", yes |-> yes]
    /\ IF yes
       THEN /\ pc' = "menu"
            /\ stack' = Recurse("300")
       ELSE /\ pc' = "return"
            /\ stack' = Asked("another")
    /\ UNCHANGED <<discovery, base_experiment, hypo, section, activity,
                   arg_i, accepts, confirmed, picks, written>>

\* the running invocation returns to its caller
Return ==
    /\ pc = "return"
    /\ IF Len(stack) > 1
       THEN /\ stack' = SubSeq(stack, 1, Len(stack) - 1)
            /\ pc' = IF stack[Len(stack) - 1].at = "254"
                     THEN "build" ELSE "return"
            /\ UNCHANGED <<base_experiment, hypo, section, last, accepts,
                           confirmed, written>>
       ELSE /\ last' = NoInput
            /\ IF section = "hypothesis"
               THEN /\ Line193(("steady-state-hypothesis" :> hypo)
                                  @@ base_experiment)
                    /\ UNCHANGED hypo
               ELSE /\ written' = base_experiment
                    /\ pc' = "done"
                    /\ stack' = <<>>
                    /\ UNCHANGED <<base_experiment, hypo, section, accepts,
                                   confirmed>>
    /\ UNCHANGED <<discovery, activity, arg_i, picks>>

----------------------------------------------------------------------------

Next ==
    \/ \E title \in Titles : EnterTitle(title)
    \/ \E yes \in BOOLEAN : ConfirmHypothesis(yes)
    \/ \E title \in Titles : EnterHypoTitle(title)
    \/ \E activity_index \in MenuInputs : MenuChoice(activity_index)
    \/ \E yes \in BOOLEAN : ConfirmUse(yes)
    \/ \E yes \in BOOLEAN : ConfirmAnotherAfterDecline(yes)
    \/ Build
    \/ \E text \in ToleranceTexts : EnterTolerance(text)
    \/ \E text \in Texts : EnterArgument(text)
    \/ \E yes \in BOOLEAN : ConfirmAnother(yes)
    \/ Return

Spec == Init /\ [][Next]_vars

----------------------------------------------------------------------------
(* Properties *)

\* the observations of the hypothesis, <<>> while there are none
Probes ==
    IF hypo # None /\ "probes" \in DOMAIN hypo THEN hypo.probes ELSE <<>>

\* the method of the experiment, <<>> while there is none
Method ==
    IF "method" \in DOMAIN base_experiment THEN base_experiment.method
    ELSE <<>>

\* the top-level invocation of add_activities is about to return to init
TopLevelReturns == pc = "return" /\ Len(stack) = 1

\* C1: when the top-level add_activities call returns, the number of
\* entries it appended to the pool equals the number of yes answers to
\* 'Do you want to use this ...?'; a declined operation is never appended.
C1_PoolLengthEqualsAccepts ==
    TopLevelReturns => Len(Pool) - Len(Top.entry) = accepts

\* C2: every entry of the hypothesis' probes (pool of the invocation with
\* with_tolerance=True) carries a tolerance, the first and the later ones,
\* and no entry of the method (with_tolerance=False) carries one.
C2_ToleranceIffCollected ==
    /\ \A i \in 1..Len(Probes) : "tolerance" \in DOMAIN Probes[i]
    /\ \A i \in 1..Len(Method) : "tolerance" \notin DOMAIN Method[i]

C4_OutOfRangeReprompts ==
    [][(/\ pc = "menu"
        /\ last'.prompt = "menu"
        /\ (last'.idx > Len(Top.activities) \/ last'.idx < 0))
       => (/\ pc' = "menu"
           /\ Top'.selected = None
           /\ hypo' = hypo
           /\ base_experiment' = base_experiment)]_vars

\* the argument the pending prompt asks for
CurrentArg == Arguments(Top.selected)[arg_i]

\* the pools of the session hold the same entries before and after a step
PoolsUnchanged == Probes' = Probes /\ Method' = Method

\* C5: for a prompted argument, a bare return stores None when the declared
\* default is None and the declared default d when it is not None; a typed
\* value v that the prompt accepts is stored as v.  The value is stored in
\* the activity, and in the pool entry when it was the last argument.
C5_ArgumentDefaulting ==
    [][(pc = "args" /\ last'.prompt = "argument")
       => LET arg == CurrentArg
              text == last'.text
              stored == activity'.provider.arguments
              declared == "default" \in DOMAIN arg
              rejected == declared /\ arg.default.t = "int"
                              /\ text \notin Numerals
              expected ==
                  IF text = "" THEN arg.default
                  ELSE [t |-> IF declared /\ arg.default.t = "int"
                              THEN "int" ELSE "str",
                        v |-> text]
          IN  ((text = "" /\ declared) \/ (text # "" /\ ~rejected))
              => /\ arg.name \in DOMAIN stored
                 /\ stored[arg.name] = expected
                 /\ arg_i' > arg_i
                 /\ pc' = "another" =>
                       Pool'[Len(Pool')].provider.arguments[arg.name]
                           = expected]_vars

\* an entry whose two prompted arguments were answered by a bare return:
\* the non-null default 30 and the None default are both stored as declared
C5_Witness ==
    /\ pc = "another"
    /\ last = [prompt |-> "argument", text |-> ""]
    /\ Len(Pool) >= 1
    /\ Pool[Len(Pool)].provider.arguments =
           ("timeout" :> Num("30")) @@ ("target" :> None)

\* the argument mappings of the session: of every pool entry, of the
\* written document and of the activity being built
AllArguments ==
    { Probes[i].provider.arguments : i \in 1..Len(Probes) }
    \cup { Method[i].provider.arguments : i \in 1..Len(Method) }
    \cup (IF written # None /\ "method" \in DOMAIN written
          THEN { written.method[i].provider.arguments :
                     i \in 1..Len(written.method) }
          ELSE {})
    \cup (IF written # None /\ "steady-state-hypothesis" \in DOMAIN written
             /\ "probes" \in DOMAIN written["steady-state-hypothesis"]
          THEN { written["steady-state-hypothesis"].probes[i]
                     .provider.arguments :
                     i \in 1..Len(written["steady-state-hypothesis"].probes) }
          ELSE {})
    \cup (IF activity # None THEN {activity.provider.arguments} ELSE {})

\* C6: no arguments mapping has the key secrets or the key configuration.
C6_ReservedNeverStored ==
    \A arguments \in AllArguments :
        DOMAIN arguments \cap {"secrets", "configuration"} = {}

\* the written document holds an entry of an operation that declares
\* secrets with a default and one of an operation that declares
\* configuration with a default
C6_Witness ==
    /\ pc = "done"
    /\ "method" \in DOMAIN written
    /\ \E i \in 1..Len(written.method) :
          /\ written.method[i].name = Str("act-one")
          /\ DOMAIN written.method[i].provider.arguments
                 = {"timeout", "target"}
    /\ \E i \in 1..Len(written.method) :
          /\ written.method[i].name = Str("probe-two")
          /\ DOMAIN written.method[i].provider.arguments = {"url"}

\* C7: once 0 is entered at a menu, at any depth, the selection loop only
\* returns: nothing is added to the pool and no further prompt is shown.
C7_ZeroTerminatesLoop ==
    [][(/\ last.prompt = "menu"
        /\ last.idx = 0
        /\ pc = "return"
        /\ section' = section)
       => (PoolsUnchanged /\ pc' \in {"return", "done"})]_vars

\* C8: 0 at the menu prompt of an invocation makes the invocation return:
\* the pool is the pool the invocation was entered with, only the menu
\* prompt was shown, and the return leaves the pool as it is.
C8_ZeroAtFirstPrompt ==
    [][/\ (pc = "menu" /\ last'.prompt = "menu" /\ last'.idx = 0)
          => /\ pc' = "return"
             /\ Len(stack') = Len(stack)
             /\ Top'.asked = {"menu"}
             /\ Pool' = Top.entry
             /\ PoolsUnchanged
       /\ pc = "return" => PoolsUnchanged]_vars

\* 0 was entered at the menu of an invocation entered with a non-empty pool
C8_Witness ==
    /\ pc = "return"
    /\ last = [prompt |-> "menu", idx |-> 0]
    /\ Top.asked = {"menu"}
    /\ Len(Top.entry) >= 1
    /\ Pool = Top.entry

\* C9: a valid selection, no to 'use this', no to 'select another': the
\* invocation returns with the pool it was entered with, and has shown no
\* tolerance or argument prompt.
C9_DeclineTwice ==
    [][/\ (pc = "declined" /\ last'.prompt = "another" /\ ~last'.yes)
          => /\ pc' = "return"
             /\ Len(stack') = Len(stack)
             /\ Top'.asked = {"menu", "use", "another"}
             /\ Pool' = Top.entry
             /\ PoolsUnchanged
       /\ pc = "return" => PoolsUnchanged]_vars

\* the operator declined a selected operation and declined to go on
C9_Witness ==
    /\ pc = "return"
    /\ last = [prompt |-> "another", yes |-> FALSE]
    /\ Top.at = "run"
    /\ Top.selected # None
    /\ Top.asked = {"menu", "use", "another"}
    /\ Pool = Top.entry

\* C10: with a discovery document whose activity list is empty, the
\* hypothesis' probes and the method are empty in every state, and so are
\* those of the written document.
C10_EmptyDiscoveryEmptyPools ==
    (discovery # None /\ discovery.activities = <<>>)
    => /\ Probes = <<>>
       /\ Method = <<>>
       /\ written # None =>
             /\ written.method = <<>>
             /\ "steady-state-hypothesis" \in DOMAIN written =>
                   written["steady-state-hypothesis"].probes = <<>>

\* a document was written from a discovery without activities, with a
\* hypothesis
C10_Witness ==
    /\ pc = "done"
    /\ discovery = [activities |-> <<>>]
    /\ written.method = <<>>
    /\ "steady-state-hypothesis" \in DOMAIN written
    /\ written["steady-state-hypothesis"].probes = <<>>

\* C11: without a discovery document no selection loop runs, and the
\* written document has a method field equal to the empty sequence and,
\* when a hypothesis was defined, a hypothesis without observations.
C11_NoDiscoveryEmptyMethod ==
    discovery = None
    => /\ stack = <<>>
       /\ written # None
          => /\ "method" \in DOMAIN written
             /\ written.method = <<>>
             /\ "steady-state-hypothesis" \in DOMAIN written
                => ("probes" \in DOMAIN written["steady-state-hypothesis"]
                    => written["steady-state-hypothesis"].probes = <<>>)

\* the candidates init passes to the selection loop of the current section
SectionCandidates ==
    IF section = "hypothesis" THEN ProbeActivities(discovery.activities)
    ELSE MethodActivities(discovery.activities)

\* C12: every invocation of the selection loop, at any depth, presents the
\* list init passed in, same content and same order; two invocations in
\* which the same index was entered have selected the same operation.
C12_CandidatesNeverChange ==
    /\ \A i \in 1..Len(stack) : stack[i].activities = SectionCandidates
    /\ \A i, j \in 1..Len(stack) :
          (/\ stack[i].selected # None
           /\ stack[j].selected # None
           /\ stack[i].activity_index = stack[j].activity_index)
          => stack[i].selected = stack[j].selected

\* the same index was entered and confirmed twice: two entries, same name
C12_Witness ==
    /\ pc = "another"
    /\ Len(stack) = 2
    /\ stack[1].at = "300"
    /\ stack[2].at = "run"
    /\ stack[1].activity_index >= 1
    /\ stack[1].activity_index = stack[2].activity_index
    /\ accepts = 2
    /\ Len(Pool) = 2
    /\ Pool[1].name = Pool[2].name

\* C13: the document is written at most once, when init has no selection
\* loop left to run, and it is the document assembled so far; when the
\* method's selection loop returns to init, however it was left, the next
\* step writes the document.
C13_WrittenOnceAtTheEnd ==
    [][/\ written' # None
          => /\ pc' = "done"
             /\ stack' = <<>>
             /\ written' = base_experiment'
             /\ hypo' # None
                => written'["steady-state-hypothesis"] = hypo'
       /\ written # None => written' = written
       /\ (TopLevelReturns /\ section = "method")
          => (written = None /\ written' = base_experiment)]_vars

\* the operator entered 0 at both menus although a probe was offered: the
\* empty shell was written
C13_Witness ==
    /\ pc = "done"
    /\ discovery # None
    /\ ProbeActivities(discovery.activities) # <<>>
    /\ last = NoInput
    /\ picks = 0
    /\ written = base_experiment
    /\ written.method = <<>>
    /\ "steady-state-hypothesis" \in DOMAIN written
    /\ written["steady-state-hypothesis"].probes = <<>>

\* the hypothesis as the experiment document holds it, None while it does not
AttachedHypothesis ==
    IF "steady-state-hypothesis" \in DOMAIN base_experiment
    THEN base_experiment["steady-state-hypothesis"]
    ELSE None

\* C14: the two sequences are independent: while the method's selection
\* loop runs the hypothesis (the dict and the one held by the document) is
\* unchanged, and while the hypothesis' selection loop runs the document
\* has no method; no step appends to both.
C14_SequencesIndependent ==
    [][/\ (section = "method" /\ section' = "method")
          => /\ hypo' = hypo
             /\ AttachedHypothesis' = AttachedHypothesis
             /\ hypo # None => AttachedHypothesis = hypo
       /\ section' = "hypothesis"
          => "method" \notin DOMAIN base_experiment'
       /\ ~(Probes' # Probes /\ Method' # Method)]_vars

\* both sequences hold an entry built from the same catalog operation
C14_Witness ==
    /\ pc = "done"
    /\ Len(Probes) = 1
    /\ Len(Method) = 1
    /\ Probes[1].name = Method[1].name
    /\ Probes[1].provider = Method[1].provider

\* the names of the entries of the current pool, in order
PoolNames == [i \in 1..Len(Pool) |-> Pool[i].name]

\* `after` is `before`, or `before` with one entry appended
AppendOnly(before, after) ==
    \/ after = before
    \/ /\ Len(after) = Len(before) + 1
       /\ SubSeq(after, 1, Len(before)) = before

\* C15: every step leaves a pool unchanged or appends one entry at its end,
\* and at every menu prompt the pool holds exactly the confirmed
\* selections, in the order of their confirmation.
C15_AppendOnlyInConfirmationOrder ==
    [][/\ AppendOnly(Probes, Probes')
       /\ AppendOnly(Method, Method')
       /\ pc' = "menu" => PoolNames' = confirmed']_vars

\* a step has appended an entry to the current pool
Appended == Len(Pool') = Len(Pool) + 1 /\ section' = section

\* C16: the entry appended by an invocation in which k, 1 <= k <= n, was
\* entered has the name, type, module and function of the k-th candidate,
\* the one shown as 'k)', and the provider type python.
C16_MenuIsOneBased ==
    [][(Appended /\ Top.activity_index \in 1..Len(Top.activities))
       => LET shown == Top.activities[Top.activity_index]
              entry == Pool'[Len(Pool')]
          IN  /\ entry.name = Str(shown[1])
              /\ entry.name = Str(shown[2].name)
              /\ entry.type = Str(shown[2].type)
              /\ entry.provider.module = Str(shown[2].mod)
              /\ entry.provider.func = Str(shown[2].name)
              /\ entry.provider.type = Str("python")]_vars

\* the second of two candidates was entered and confirmed, and appended
C16_Witness ==
    /\ pc = "another"
    /\ Top.at = "run"
    /\ Len(Top.activities) = 2
    /\ Top.activity_index = 2
    /\ Top.activities[1][1] # Top.activities[2][1]
    /\ confirmed = << Str(Top.activities[2][1]) >>
    /\ PoolNames = confirmed

\* the argument names an operation declares, at positions 1..n
Declared(selected, n) ==
    { Arguments(selected)[i].name : i \in 1..n }

\* the activity of the discovery document an entry was built from
Operation(entry) ==
    CHOOSE a \in { discovery.activities[i] :
                      i \in 1..Len(discovery.activities) } :
        Str(a.name) = entry.name

\* C17: the keys of an entry's arguments are the declared argument names
\* minus secrets and configuration, no more and no less; while the
\* arguments are asked for, the keys stored so far are those of the
\* non-reserved arguments before the one being asked for, which is not
\* reserved.
C17_ArgumentKeys ==
    /\ \A entry \in { Probes[i] : i \in 1..Len(Probes) }
                    \cup { Method[i] : i \in 1..Len(Method) } :
          LET args == Arguments(Operation(entry))
          IN  DOMAIN entry.provider.arguments
                  = Declared(Operation(entry), Len(args))
                        \ {"secrets", "configuration"}
    /\ pc = "args"
       => /\ arg_i \in 1..Len(Arguments(Top.selected))
          /\ CurrentArg.name \notin {"secrets", "configuration"}
          /\ DOMAIN activity.provider.arguments
                 = Declared(Top.selected, arg_i - 1)
                       \ {"secrets", "configuration"}

\* an entry of an operation without arguments, with an empty mapping,
\* next to an entry of an operation with reserved and other arguments
C17_Witness ==
    /\ pc = "done"
    /\ Len(Method) = 2
    /\ Method[1].name = Str("probe-one")
    /\ Method[1].provider.arguments = <<>>
    /\ Method[2].name = Str("act-one")
    /\ DOMAIN Method[2].provider.arguments = {"timeout", "target"}

\* C18: the menu goes through the pager exactly when there are more than
\* 10 candidates, and paged or not a menu entry k, 1 <= k <= n, selects
\* the k-th candidate and leaves the pools as they are.
C18_PagerAboveTen ==
    [][/\ \A i \in 1..Len(stack') :
             (stack'[i].echo = "echo_via_pager")
                 <=> (Len(stack'[i].activities) > 10)
       /\ (/\ pc = "menu"
           /\ last'.prompt = "menu"
           /\ last'.idx \in 1..Len(Top.activities))
          => /\ pc' = "confirm"
             /\ Top'.selected = Top.activities[last'.idx][2]
             /\ Top'.echo = Top.echo
             /\ PoolsUnchanged]_vars

\* an entry was selected from a paged menu of 11 candidates and appended
C18_Witness ==
    /\ pc = "another"
    /\ Top.echo = "echo_via_pager"
    /\ Len(Top.activities) = 11
    /\ Top.activity_index = 3
    /\ PoolNames = << Str(Top.activities[3][1]) >>

====
